---- MODULE Spec2Model ----
(***************************************************************************)
(* Model of the db-mixin factory (PaaS-Shack/db-mixin).  The repository    *)
(* holds two variants of the mixin factory: src/unnamed/part_000 (the one  *)
(* that declares the permission-gated actions) and src/db.mixin.js (the    *)
(* one with the test-mode switches).  Both are modelled; the variable      *)
(* `variant` says which one a run is about.                                 *)
(*                                                                         *)
(* A JavaScript value that may be undefined is modelled as a set: {} is    *)
(* undefined and {v} is the value v.                                        *)
(***************************************************************************)
EXTENDS Naturals, Sequences, FiniteSets, TLC

VARIABLES
    vh,          \* the validateHas invocation under way
    variant,     \* which variant of the factory the services are built from
    testing,     \* TESTING: NODE_ENV === "test" when the module was loaded
    env0,        \* the environment each process is launched with
    env,         \* process.env of each replica's process
    opts,        \* the options object handed to the factory
    caps,        \* which optional methods the service defines
    svc,         \* each replica's service: position, codec, schema
    collection,  \* the entities of the shared collection
    dirs         \* directories created by mkdirp

\* ------------------------------------------------------------------ bounds

\* Number of distinct non-empty entity ids a request may carry.
NumIds == 2

\* ------------------------------------------------------------- JS values

Undefined == {}

Some(v) == {v}

\* JavaScript truthiness of an optional string: undefined and "" are falsy.
Truthy(v) == v # Undefined /\ v # Some("")

Ids == {"id" \o ToString(i) : i \in 1..NumIds}

\* Values a request parameter or a query field may hold.
ParamValues == {Undefined, Some("")} \cup {Some(i) : i \in Ids}

Keys == {"board", "owner"}

Callers == {"v1.boards.resolve", "v1.accounts.resolve"}

\* ctx.action.params[key]: no entry, an entry with optional: true, or an
\* entry that is not optional.
SchemaEntries == {"none", "optional", "required"}

\* ------------------------------------------------------------ validateHas

\* The identifier MoleculerClientError is used by validateHas but neither
\* variant of the module imports or declares it (the requires at the top of
\* the file bind _, crypto, path, mkdir, DbService, HashIds and ObjectID
\* only), so evaluating `new MoleculerClientError(...)` in strict mode
\* throws a ReferenceError.
MoleculerClientErrorBound == FALSE

NoError == [name |-> "none", code |-> Undefined, type |-> "none", data |-> Undefined, field |-> Undefined]

NoResult == [kind |-> "pending", value |-> "none", error |-> NoError]

\* `return query`: the caller gets the reference to the query object.
ReturnQuery == [kind |-> "return", value |-> "query", error |-> NoError]

\* Falling off the end of the async function: the promise resolves to
\* undefined.
ReturnUndefined == [kind |-> "return", value |-> "undefined", error |-> NoError]

\* throw new MoleculerClientError(message, code, type, data)
ThrowClientError(code, type, data, field) ==
    IF MoleculerClientErrorBound
    THEN [kind |-> "throw", value |-> "none",
          error |-> [name |-> "MoleculerClientError", code |-> Some(code),
                     type |-> type, data |-> data, field |-> field]]
    ELSE [kind |-> "throw", value |-> "none",
          error |-> [name |-> "ReferenceError", code |-> Undefined,
                     type |-> "none", data |-> Undefined, field |-> Undefined]]

\* A rejection of the delegated ctx.call is not caught: it propagates.
ThrowCallRejected ==
    [kind |-> "throw", value |-> "none",
     error |-> [name |-> "CallRejected", code |-> Undefined, type |-> "none",
                data |-> Undefined, field |-> Undefined]]

\* ctx.action.params[key] && !ctx.action.params[key].optional
MarkedRequired(schema, key) == schema[key] = "required"

\* if (params[key])
ParamPresent(params, key) == Truthy(params[key])

\* if (res)
LookupFound(res) == res # Undefined

\* query[key] = params[key]
MergeKey(query, key, params) == [query EXCEPT ![key] = params[key]]

\* validateHas without its `if (!ctx) return query` line.
validateHasEnter_NoCtxGuard ==
    /\ vh.pc = "called"
    /\ IF ParamPresent(vh.params, vh.key)
       THEN vh' = [vh EXCEPT !.pc = "awaiting",
                             !.calls = Append(@, [action |-> vh.caller,
                                                  id |-> vh.params[vh.key]])]
       ELSE IF MarkedRequired(vh.schema, vh.key)
       THEN vh' = [vh EXCEPT !.pc = "done",
                             !.result = ThrowClientError(422, "VALIDATION_ERROR",
                                                         Undefined, Some(vh.key))]
       ELSE vh' = [vh EXCEPT !.pc = "done", !.result = ReturnUndefined]
    /\ UNCHANGED << variant, testing, env0, env, opts, caps, svc, collection, dirs >>

\* The synchronous part of validateHas: up to the first await, or to the end
\* when no lookup is needed.
validateHasEnter ==
    /\ vh.pc = "called"
    /\ IF ~vh.ctx
       THEN vh' = [vh EXCEPT !.pc = "done", !.result = ReturnQuery]
       ELSE IF ParamPresent(vh.params, vh.key)
       THEN vh' = [vh EXCEPT !.pc = "awaiting",
                             !.calls = Append(@, [action |-> vh.caller,
                                                  id |-> vh.params[vh.key]])]
       ELSE IF MarkedRequired(vh.schema, vh.key)
       THEN vh' = [vh EXCEPT !.pc = "done",
                             !.result = ThrowClientError(422, "VALIDATION_ERROR",
                                                         Undefined, Some(vh.key))]
       ELSE vh' = [vh EXCEPT !.pc = "done", !.result = ReturnUndefined]
    /\ UNCHANGED << variant, testing, env0, env, opts, caps, svc, collection, dirs >>

\* The delegated lookup resolves with res: an entity ({"entity"}) or nothing.
validateHasResume ==
    /\ vh.pc = "awaiting"
    /\ \E res \in {Undefined, Some("entity")} :
          IF LookupFound(res)
          THEN vh' = [vh EXCEPT !.pc = "done", !.res = res,
                                !.query = MergeKey(vh.query, vh.key, vh.params),
                                !.result = ReturnQuery]
          ELSE vh' = [vh EXCEPT !.pc = "done", !.res = res,
                                !.result = ThrowClientError(403, "ERR_NO_PERMISSION",
                                                            vh.params[vh.key], Undefined)]
    /\ UNCHANGED << variant, testing, env0, env, opts, caps, svc, collection, dirs >>

\* The delegated lookup rejects (the called service throws).
validateHasRejected ==
    /\ vh.pc = "awaiting"
    /\ vh' = [vh EXCEPT !.pc = "done", !.result = ThrowCallRejected]
    /\ UNCHANGED << variant, testing, env0, env, opts, caps, svc, collection, dirs >>

\* --------------------------------------------------------------- factory

Variants == {"part_000", "db.mixin.js"}

Replicas == {1, 2}

\* Value of a template-string substitution `${v}`.
Str(v) == IF v = Undefined THEN "undefined" ELSE CHOOSE x \in v : TRUE

\* a || b on optional strings
Or(a, b) == IF Truthy(a) THEN a ELSE b

\* Directories: a path and whether it is absolute.
Cwd == "/app"

RelDir == [abs |-> FALSE, path |-> "data"]

AbsDir == [abs |-> TRUE, path |-> "/var/db"]

\* path.resolve(dir)
PathResolve(d) == IF d.abs THEN d.path ELSE Cwd \o "/" \o d.path

\* path.join(dir, name)
PathJoin(dir, name) == dir \o "/" \o name

\* An adapter setting: undefined, a bare adapter name (form "string", the
\* name in type) or an object {type, options: {uri, collection, neDB:
\* {inMemoryOnly, corruptAlertThreshold, filename}}}, its leaves flattened.
NoAdapter ==
    [form |-> "undefined", type |-> Undefined, uri |-> Undefined,
     collection |-> Undefined, inMemoryOnly |-> Undefined,
     corruptAlertThreshold |-> Undefined, filename |-> Undefined]

\* adapter: "NeDB"
AdapterName(name) == [NoAdapter EXCEPT !.form = "string", !.type = Some(name)]

\* adapter: {type: "NeDB", options: {neDB: {...}}}
NeDBAdapter(dir, coll) ==
    [NoAdapter EXCEPT !.form = "object", !.type = Some("NeDB"),
                      !.inMemoryOnly = Some(FALSE),
                      !.corruptAlertThreshold = Some("0.5"),
                      !.filename = Some(PathJoin(dir, coll \o ".db"))]

\* adapter: {type: "MongoDB", options: {uri, collection}}
MongoDBAdapter(mongoUri, coll) ==
    [NoAdapter EXCEPT !.form = "object", !.type = Some("MongoDB"),
                      !.uri = Or(mongoUri, Some("mongodb://localhost/data")),
                      !.collection = Some(coll)]

\* _.defaultsDeep(opts, {adapter: d}) on the adapter: an undefined adapter
\* becomes d, a non-object one is kept, an object keeps every leaf it
\* defines and takes the others from d.
DefaultsDeep(a, d) ==
    CASE a.form = "undefined" -> d
      [] a.form = "string" -> a
      [] OTHER -> [f \in DOMAIN a |->
                     IF f = "form" THEN a.form
                     ELSE IF a[f] = Undefined THEN d[f] ELSE a[f]]

\* db.mixin.js: (TESTING && !process.env.TEST_INT) || process.env.ONLY_GENERATE
InMemoryMode(e) == (testing /\ ~Truthy(e.TEST_INT)) \/ Truthy(e.ONLY_GENERATE)

\* A selection that looks at the environment only.
NedbDir_EnvOnly(v, e, o) == e.NEDB_FOLDER

\* The directory of the file-backed store, if one is configured.
NedbDir(v, e, o) ==
    IF v = "db.mixin.js"
    THEN (IF e.NEDB_FOLDER # Undefined THEN e.NEDB_FOLDER ELSE o.nedb)
    ELSE o.nedb

\* The adapter selection of the factory: the adapter opts ends up with.
SelectAdapter(v, e, o) ==
    IF v = "db.mixin.js" /\ InMemoryMode(e)
    THEN DefaultsDeep(o.adapter, AdapterName("NeDB"))
    ELSE IF NedbDir(v, e, o) # Undefined
    THEN DefaultsDeep(o.adapter,
                      NeDBAdapter(PathResolve(Str(NedbDir(v, e, o))), o.collection))
    ELSE DefaultsDeep(o.adapter, MongoDBAdapter(e.MONGO_URI, o.collection))

\* mkdir(dir): the directories that exist after the selection.
MkdirSelected(v, e, o, ds) ==
    IF (v = "db.mixin.js" /\ InMemoryMode(e)) \/ NedbDir(v, e, o) = Undefined
    THEN ds
    ELSE ds \cup {PathResolve(Str(NedbDir(v, e, o)))}

ActionNames == {"create", "list", "find", "count", "get", "update", "remove"}

\* One declared action: {rest, needEntity, permissions: [`${prefix}.${name}`]}
ActionDef(prefix, name) ==
    [disabled |-> FALSE,
     rest |-> CASE name = "find" -> Some("GET /find")
                [] name = "count" -> Some("GET /count")
                [] OTHER -> Undefined,
     needEntity |-> name \in {"get", "update", "remove"},
     permissions |-> << Str(prefix) \o "." \o name >>]

\* replace: false
ActionDisabled ==
    [disabled |-> TRUE, rest |-> Undefined, needEntity |-> FALSE,
     permissions |-> << >>]

\* schema.actions: part_000 declares the gated actions and disables
\* replace; db.mixin.js declares none (actions: {}).
SchemaActions(v, o) ==
    IF v = "part_000"
    THEN [n \in ActionNames \cup {"replace"} |->
            IF n = "replace" THEN ActionDisabled ELSE ActionDef(o.permissions, n)]
    ELSE [n \in {} |-> ActionDisabled]

\* db.mixin.js: without TOKEN_SALT, in test runs, HASHID_SALT is overwritten
\* with random bytes (a value of the process's own) before the codec is built.
RandomSalt(r) == "random-" \o ToString(r)

SaltEnv(v, e, r) ==
    IF v = "db.mixin.js" /\ ~Truthy(e.TOKEN_SALT) /\ (testing \/ Truthy(e.TEST_E2E))
    THEN [e EXCEPT !.HASHID_SALT = Some(RandomSalt(r))]
    ELSE e

NoSchema == [adapter |-> NoAdapter, actions |-> [n \in {} |-> ActionDisabled]]

\* module.exports(opts): the call of the factory in replica r's process.
Factory(r) ==
    /\ svc[r].pc = "new"
    /\ env' = [env EXCEPT ![r] = SaltEnv(variant, env[r], r)]
    /\ dirs' = [dirs EXCEPT ![r] = MkdirSelected(variant, env'[r], opts, dirs[r])]
    /\ svc' = [svc EXCEPT ![r].pc = "built",
                          ![r].hashids = env'[r].HASHID_SALT,
                          ![r].adapter = SelectAdapter(variant, env'[r], opts),
                          ![r].actions = SchemaActions(variant, opts)]
    /\ UNCHANGED << vh, variant, testing, env0, opts, caps, collection >>

\* A created hook that tests nothing.
SaltConfigured_Unchecked(e) == TRUE

\* The created hook.  broker.fatal logs the message and exits the process.
SaltConfigured(e) == Truthy(e.HASHID_SALT)

created(r) ==
    /\ svc[r].pc = "built"
    /\ svc' = [svc EXCEPT ![r].pc = IF SaltConfigured(env[r]) THEN "created" ELSE "exited"]
    /\ UNCHANGED << vh, variant, testing, env0, env, opts, caps, collection, dirs >>

\* ------------------------------------------------------------- lifecycle

\* Times a replica's process may be restarted.
MaxStarts == 2

\* Entities a seed function inserts.
SeedSize == 2

\* Entities clients create through the running services.
MaxClientEntities == 1

\* process.env.TEST_E2E || process.env.TEST_INT
CleanBeforeTests(v, e) ==
    v = "db.mixin.js" /\ (Truthy(e.TEST_E2E) \/ Truthy(e.TEST_INT))

\* Whether started calls this.createIndexes(): part_000 tests that the
\* method exists, db.mixin.js calls it whenever not TESTING.
CallsCreateIndexes(v) ==
    IF v = "part_000" THEN caps.createIndexes ELSE ~testing

\* Where started goes once the index block is over.
AfterIndexes(v, e) ==
    IF v = "part_000"
    THEN (IF caps.seedDB THEN "count" ELSE "running")
    ELSE (IF CleanBeforeTests(v, e) THEN "clear" ELSE "count")

\* A seeding decision that ignores the count.
SeedsAfterCount_Always(v, count) == TRUE

\* The seeding decision once count has been read.
SeedsAfterCount(v, count) ==
    IF v = "part_000" THEN count = 0 ELSE count = 0 /\ caps.seedDB

\* Entry of the started hook, up to its first await.
startedEnter(r) ==
    /\ svc[r].pc = "created"
    /\ svc' = [svc EXCEPT ![r].pc = IF CallsCreateIndexes(variant) THEN "indexes"
                                    ELSE AfterIndexes(variant, env[r]),
                          ![r].emptyAtStart = (collection = {}),
                          ![r].idx = "none",
                          ![r].logged = 0,
                          ![r].count = Undefined,
                          ![r].written = 0]
    /\ UNCHANGED << vh, variant, testing, env0, env, opts, caps, collection, dirs >>

\* The index block without its try/catch: a failure rejects started.
CatchIndexError_Rethrow(r, ok) ==
    [svc EXCEPT ![r].pc = IF ok THEN AfterIndexes(variant, env[r]) ELSE "failed",
                ![r].idx = IF ok THEN "ok" ELSE "failed"]

\* try { await this.createIndexes() } catch (err) { this.logger.error(...) }
CatchIndexError(r, ok) ==
    [svc EXCEPT ![r].pc = AfterIndexes(variant, env[r]),
                ![r].idx = IF ok THEN "ok" ELSE "failed",
                ![r].logged = IF ok THEN @ ELSE @ + 1]

\* createIndexes settles: it resolves or rejects; calling a method the
\* service does not define throws a TypeError inside the try.
createIndexesSettled(r) ==
    /\ svc[r].pc = "indexes"
    /\ \E ok \in BOOLEAN :
          /\ ok => caps.createIndexes
          /\ svc' = CatchIndexError(r, ok)
    /\ UNCHANGED << vh, variant, testing, env0, env, opts, caps, collection, dirs >>

\* await this.clearEntities()
clearEntities(r) ==
    /\ svc[r].pc = "clear"
    /\ collection' = {}
    /\ svc' = [svc EXCEPT ![r].pc = "count"]
    /\ UNCHANGED << vh, variant, testing, env0, env, opts, caps, dirs >>

\* const count = await this.countEntities(null, {}): the store is read.
countEntities(r) ==
    /\ svc[r].pc = "count"
    /\ svc' = [svc EXCEPT ![r].pc = "counted",
                          ![r].count = Some(Cardinality(collection))]
    /\ UNCHANGED << vh, variant, testing, env0, env, opts, caps, collection, dirs >>

\* A guarded seeding decision: the store is read again and the seed function
\* is invoked only if the collection is still empty.
seedDecision_Recheck(r) ==
    /\ svc[r].pc = "counted"
    /\ IF SeedsAfterCount(variant, Str(svc[r].count)) /\ collection = {}
       THEN svc' = [svc EXCEPT ![r].pc = "seeding", ![r].seedCalls = @ + 1]
       ELSE svc' = [svc EXCEPT ![r].pc = "running"]
    /\ UNCHANGED << vh, variant, testing, env0, env, opts, caps, collection, dirs >>

\* if (count == 0 ...) { await this.seedDB() }: the seed function is invoked.
seedDecision(r) ==
    /\ svc[r].pc = "counted"
    /\ IF SeedsAfterCount(variant, Str(svc[r].count))
       THEN svc' = [svc EXCEPT ![r].pc = "seeding", ![r].seedCalls = @ + 1]
       ELSE svc' = [svc EXCEPT ![r].pc = "running"]
    /\ UNCHANGED << vh, variant, testing, env0, env, opts, caps, collection, dirs >>

\* The running seed function inserts one entity.
seedInsert(r) ==
    /\ svc[r].pc = "seeding"
    /\ svc[r].written < SeedSize
    /\ collection' = collection \cup
           {[src |-> "seed", by |-> r, n |-> svc[r].written + 1]}
    /\ svc' = [svc EXCEPT ![r].written = @ + 1]
    /\ UNCHANGED << vh, variant, testing, env0, env, opts, caps, dirs >>

\* seedDB resolves: started returns and the service runs.
seedResolved(r) ==
    /\ svc[r].pc = "seeding"
    /\ svc[r].written = SeedSize
    /\ svc' = [svc EXCEPT ![r].pc = "running"]
    /\ UNCHANGED << vh, variant, testing, env0, env, opts, caps, collection, dirs >>

\* seedDB rejects: nothing catches it and started rejects.
seedRejected(r) ==
    /\ svc[r].pc = "seeding"
    /\ svc' = [svc EXCEPT ![r].pc = "failed"]
    /\ UNCHANGED << vh, variant, testing, env0, env, opts, caps, collection, dirs >>

\* A client creates an entity through the create action of a running service
\* (by is the seeding replica of a seed entity, 0 for a client's).
createEntity(r) ==
    /\ svc[r].pc = "running"
    /\ Cardinality({e \in collection : e.src = "client"}) < MaxClientEntities
    /\ collection' = collection \cup
           {[src |-> "client", by |-> 0,
             n |-> Cardinality({e \in collection : e.src = "client"}) + 1]}
    /\ UNCHANGED << vh, variant, testing, env0, env, opts, caps, svc, dirs >>

\* A service before its factory has run.  starts counts the launches of the
\* replica's process, seedCalls the invocations of its seed function.
NewService ==
    [pc |-> "new", hashids |-> Undefined, adapter |-> NoSchema.adapter,
     actions |-> NoSchema.actions, starts |-> 1, emptyAtStart |-> FALSE,
     idx |-> "none", count |-> Undefined, written |-> 0, seedCalls |-> 0,
     logged |-> 0]

\* The replica's process ends and is launched again, with the environment
\* it is configured with.
restart(r) ==
    /\ svc[r].pc \in {"running", "failed"}
    /\ svc[r].starts < MaxStarts
    /\ svc' = [svc EXCEPT ![r] = [NewService EXCEPT !.starts = svc[r].starts + 1,
                                                     !.seedCalls = svc[r].seedCalls]]
    /\ env' = [env EXCEPT ![r] = env0]
    /\ UNCHANGED << vh, variant, testing, env0, opts, caps, collection, dirs >>

\* ------------------------------------------------------- specifications

vars == << vh, variant, testing, env0, env, opts, caps, svc, collection, dirs >>

IdleValidate ==
    [pc |-> "idle", caller |-> "v1.boards.resolve", key |-> "board", ctx |-> FALSE,
     query |-> [k \in Keys |-> Undefined], query0 |-> [k \in Keys |-> Undefined],
     params |-> [k \in Keys |-> Undefined], schema |-> [k \in Keys |-> "none"],
     calls |-> << >>, res |-> Undefined, result |-> NoResult]

OptFlag == {Undefined, Some("1")}

EnvOf(salt, token, e2e, int, gen, folder, uri) ==
    [HASHID_SALT |-> salt, TOKEN_SALT |-> token, TEST_E2E |-> e2e,
     TEST_INT |-> int, ONLY_GENERATE |-> gen, NEDB_FOLDER |-> folder,
     MONGO_URI |-> uri]

OptsOf(coll, nedb, perms, adapter) ==
    [collection |-> coll, nedb |-> nedb, permissions |-> perms, adapter |-> adapter]

InitServices ==
    /\ env = [r \in Replicas |-> env0]
    /\ svc = [r \in Replicas |-> NewService]
    /\ collection = {}
    /\ dirs = [r \in Replicas |-> {}]

\* Service lifecycle: two replicas of one service against one collection.
\* part_000 reads neither TESTING nor the TEST_* variables, so they vary
\* for db.mixin.js only; TEST_INT acts on started as TEST_E2E does and is
\* left unset here, as is TOKEN_SALT (SpecFactory varies them all).
Init ==
    /\ vh = IdleValidate
    /\ variant \in Variants
    /\ testing \in (IF variant = "part_000" THEN {FALSE} ELSE BOOLEAN)
    /\ \E salt \in {Undefined, Some("s3cret")},
          e2e \in (IF variant = "part_000" THEN {Undefined} ELSE OptFlag) :
          env0 = EnvOf(salt, Undefined, e2e, Undefined, Undefined, Undefined, Undefined)
    /\ opts = OptsOf("accounts", Undefined, Some("accounts"), NoAdapter)
    /\ caps \in [createIndexes : BOOLEAN, seedDB : BOOLEAN]
    /\ InitServices

Next ==
    \E r \in Replicas :
        \/ Factory(r)
        \/ created(r)
        \/ startedEnter(r)
        \/ createIndexesSettled(r)
        \/ clearEntities(r)
        \/ countEntities(r)
        \/ seedDecision(r)
        \/ seedInsert(r)
        \/ seedResolved(r)
        \/ seedRejected(r)
        \/ createEntity(r)
        \/ restart(r)

Spec == Init /\ [][Next]_vars

\* The factory alone, over every combination of configuration.
PresetAdapters ==
    {NoAdapter, AdapterName("NeDB"),
     [NoAdapter EXCEPT !.form = "object", !.type = Some("MongoDB")]}

InitFactory ==
    /\ vh = IdleValidate
    /\ variant \in Variants
    /\ testing \in BOOLEAN
    /\ \E salt \in {Undefined, Some("s3cret")}, token, e2e, int, gen \in OptFlag,
          folder \in {Undefined, Some(AbsDir)},
          uri \in {Undefined, Some("mongodb://db.internal/prod")} :
          env0 = EnvOf(salt, token, e2e, int, gen, folder, uri)
    /\ \E coll \in {"accounts", "boards"}, nedb \in {Undefined, Some(RelDir)},
          perms \in {Some("accounts"), Some("v1.boards")},
          adapter \in PresetAdapters :
          opts = OptsOf(coll, nedb, perms, adapter)
    /\ caps = [createIndexes |-> TRUE, seedDB |-> TRUE]
    /\ InitServices

NextFactory == \E r \in Replicas : Factory(r) \/ created(r)

SpecFactory == InitFactory /\ [][NextFactory]_vars

\* One invocation validateHas(caller, key, query, ctx, params); query0 keeps
\* the query as it was handed in.
InitValidate ==
    /\ \E caller \in Callers, key \in Keys, ctx \in BOOLEAN,
          query \in [Keys -> ParamValues], params \in [Keys -> ParamValues],
          schema \in [Keys -> SchemaEntries] :
          vh = [pc |-> "called", caller |-> caller, key |-> key, ctx |-> ctx,
                query |-> query, query0 |-> query, params |-> params,
                schema |-> schema, calls |-> << >>, res |-> Undefined,
                result |-> NoResult]
    /\ variant = "part_000"
    /\ testing = FALSE
    /\ env0 = EnvOf(Some("s3cret"), Undefined, Undefined, Undefined, Undefined,
                    Undefined, Undefined)
    /\ opts = OptsOf("accounts", Undefined, Some("accounts"), NoAdapter)
    /\ caps = [createIndexes |-> TRUE, seedDB |-> TRUE]
    /\ InitServices

NextValidate == validateHasEnter \/ validateHasResume \/ validateHasRejected

SpecValidate == InitValidate /\ [][NextValidate]_vars

\* ------------------------------------------------------------ properties

\* A validateHas invocation that has settled without the delegated call
\* itself having rejected.
Settled == vh.pc = "done" /\ vh.result # ThrowCallRejected

ClientError(code, type, data, field) ==
    [kind |-> "throw", value |-> "none",
     error |-> [name |-> "MoleculerClientError", code |-> Some(code),
                type |-> type, data |-> data, field |-> field]]

\* C1: with a context, params[key] absent and key not marked required,
\* validateHas returns the query it was given, unchanged, and makes no
\* delegated lookup.
C1_AbsentOptionalReturnsQuery ==
    (vh.ctx /\ vh.params[vh.key] = Undefined /\ vh.schema[vh.key] # "required"
        /\ vh.pc = "done")
    => (vh.result = ReturnQuery /\ vh.query = vh.query0 /\ vh.calls = << >>)

\* C2: with a context and params[key] present, exactly one lookup
\* {id: params[key]} goes to the caller service; a result makes validateHas
\* return the query with query[key] = params[key] and nothing else changed;
\* no result makes it fail with 403 ERR_NO_PERMISSION carrying params[key],
\* the query unchanged.
C2_PresentDelegates ==
    (vh.ctx /\ Truthy(vh.params[vh.key]) /\ Settled)
    => /\ vh.calls = << [action |-> vh.caller, id |-> vh.params[vh.key]] >>
       /\ IF vh.res # Undefined
          THEN /\ vh.result = ReturnQuery
               /\ vh.query[vh.key] = vh.params[vh.key]
               /\ \A k \in Keys \ {vh.key} : vh.query[k] = vh.query0[k]
          ELSE /\ vh.result = ClientError(403, "ERR_NO_PERMISSION",
                                          vh.params[vh.key], Undefined)
               /\ vh.query = vh.query0

\* C3: with a context, params[key] absent and key marked required,
\* validateHas fails with 422 VALIDATION_ERROR naming key as the missing
\* required field, makes no lookup and leaves the query alone.
C3_AbsentRequiredFails ==
    (vh.ctx /\ vh.params[vh.key] = Undefined /\ vh.schema[vh.key] = "required"
        /\ vh.pc = "done")
    => /\ vh.result = ClientError(422, "VALIDATION_ERROR", Undefined, Some(vh.key))
       /\ vh.calls = << >>
       /\ vh.query = vh.query0

\* C4: without a context validateHas returns the original query unmodified,
\* whatever key and params are, makes no lookup and raises no error.
C4_NoContextPassThrough ==
    ~vh.ctx
    => /\ vh.calls = << >>
       /\ vh.query = vh.query0
       /\ vh.pc \in {"called", "done"}
       /\ vh.pc = "done" => vh.result = ReturnQuery

\* A call without context, with the key present in params and required by
\* the schema, has returned.
C4_Witness ==
    /\ ~vh.ctx
    /\ vh.pc = "done"
    /\ Truthy(vh.params[vh.key])
    /\ vh.schema[vh.key] = "required"
    /\ vh.query[vh.key] # vh.params[vh.key]

\* Positions of a replica inside the seeding step of started: the count
\* check and the seed.
SeedingStep == {"count", "counted", "seeding"}

\* Positions of a replica inside the started hook.
InStarted == {"indexes", "clear"} \cup SeedingStep

\* The step is one of replica r's.
StepOf(r) == svc'[r] # svc[r]

\* Replica r invokes its seed function in this step.
InvokesSeed(r) == svc'[r].seedCalls > svc[r].seedCalls

\* db.mixin.js cleans the collection before tests.
CleansBeforeTests ==
    variant = "db.mixin.js" /\ (env0.TEST_E2E # Undefined \/ env0.TEST_INT # Undefined)

C5_SeedOnlyWhenEmptyAtStart ==
    \A r \in Replicas :
        /\ InvokesSeed(r) => caps.seedDB /\ svc[r].emptyAtStart
        /\ (svc[r].pc \in InStarted /\ StepOf(r)) => collection \subseteq collection'

C5_SeedOnlyWhenEmptyOrCleaned ==
    \A r \in Replicas :
        /\ InvokesSeed(r) =>
              /\ caps.seedDB
              /\ svc[r].count = Some(0)
              /\ svc[r].emptyAtStart \/ CleansBeforeTests
        /\ (svc[r].pc \in InStarted /\ StepOf(r) /\ ~(collection \subseteq collection'))
              => CleansBeforeTests /\ svc[r].pc = "clear" /\ collection' = {}

C6_IndexesBeforeSeeding ==
    \A r \in Replicas :
        (svc[r].pc \in SeedingStep /\ caps.createIndexes) => svc[r].idx \in {"ok", "failed"}

C6_IndexFailureSwallowed ==
    \A r \in Replicas :
        (svc[r].pc = "indexes" /\ StepOf(r)) =>
            /\ svc'[r].idx \in {"ok", "failed"}
            /\ svc'[r].pc \in {"clear", "count", "running"}
            /\ svc'[r].pc = "running" => (variant = "part_000" /\ ~caps.seedDB)
            /\ svc'[r].logged = svc[r].logged + (IF svc'[r].idx = "failed" THEN 1 ELSE 0)

\* C6: on start, index creation is attempted first when the capability
\* exists; a failure is logged and swallowed and the hook goes on to the
\* seeding step; the seeding step is never reached before index creation
\* has finished or failed.
C6_Original == [](C6_IndexesBeforeSeeding) /\ [][C6_IndexFailureSwallowed]_vars

C6_IndexesBeforeSeedingWhenCalled ==
    \A r \in Replicas :
        svc[r].pc \in SeedingStep =>
            IF (variant = "part_000" /\ caps.createIndexes)
                   \/ (variant = "db.mixin.js" /\ ~testing)
            THEN svc[r].idx \in {"ok", "failed"}
            ELSE svc[r].idx = "none"

\* C6 as amended: part_000 attempts index creation first when the capability
\* exists; db.mixin.js attempts it first whenever NODE_ENV is not "test" and
\* never in test mode.  Whenever it is attempted, the seeding step is not
\* reached before it has finished or failed, and a failure is logged and
\* swallowed and the hook goes on as after a success.
C6_Amended == [](C6_IndexesBeforeSeedingWhenCalled) /\ [][C6_IndexFailureSwallowed]_vars

\* Index creation has failed, the failure is logged, and the replica is
\* seeding.
C6_Witness ==
    \E r \in Replicas :
        svc[r].idx = "failed" /\ svc[r].logged = 1 /\ svc[r].pc = "seeding"

\* C7: no service has passed creation while the salt its codec was built
\* with is unset: created aborts the process when HASHID_SALT is not set.
C7_NoServiceWithoutSalt ==
    \A r \in Replicas :
        svc[r].pc \notin {"new", "built", "exited"} => svc[r].hashids # Undefined

\* A replica was built without a salt, created has run and its process has
\* exited.
C7_Witness ==
    \E r \in Replicas :
        /\ env0.HASHID_SALT = Undefined
        /\ svc[r].hashids = Undefined
        /\ svc[r].pc = "exited"

C10_SeedDecisionUnguarded ==
    \A r \in Replicas :
        (svc[r].pc = "counted" /\ svc[r].count = Some(0) /\ caps.seedDB /\ StepOf(r))
            => svc'[r].pc = "seeding" /\ InvokesSeed(r)

\* C10: seeding is not guarded against concurrent starts: a replica that
\* has read count 0 invokes its seed function whatever the other replica has
\* done to the collection since, so two replicas that both read 0 both seed.
C10_Unguarded == [][C10_SeedDecisionUnguarded]_vars

\* Both replicas, in their first start, read count 0 and invoked the seed
\* function: the collection holds the seed entities of both.
C10_SeededTwice ==
    /\ \A r \in Replicas :
          /\ svc[r].starts = 1
          /\ svc[r].count = Some(0)
          /\ svc[r].seedCalls = 1
          /\ svc[r].written = SeedSize
    /\ Cardinality({e \in collection : e.src = "seed"}) = 2 * SeedSize

\* The adapter configurations the selection is to produce, written out.
ExpectedNeDB(dir, coll) ==
    [form |-> "object", type |-> {"NeDB"}, uri |-> {}, collection |-> {},
     inMemoryOnly |-> {FALSE}, corruptAlertThreshold |-> {"0.5"},
     filename |-> {dir \o "/" \o coll \o ".db"}]

ExpectedMongoDB(mongoUri, coll) ==
    [form |-> "object", type |-> {"MongoDB"}, uri |-> {mongoUri},
     collection |-> {coll}, inMemoryOnly |-> {}, corruptAlertThreshold |-> {},
     filename |-> {}]

ExpectedBareNeDB ==
    [form |-> "string", type |-> {"NeDB"}, uri |-> {}, collection |-> {},
     inMemoryOnly |-> {}, corruptAlertThreshold |-> {}, filename |-> {}]

\* The local-file directory the configuration names: opts.nedb, and for
\* db.mixin.js the NEDB_FOLDER variable before it.
ConfiguredDir ==
    IF variant = "db.mixin.js" /\ env0.NEDB_FOLDER # {} THEN env0.NEDB_FOLDER ELSE opts.nedb

AbsolutePath(d) == IF d.abs THEN d.path ELSE "/app/" \o d.path

ConfiguredUri ==
    IF env0.MONGO_URI # {} THEN CHOOSE u \in env0.MONGO_URI : TRUE
    ELSE "mongodb://localhost/data"

ByPriority ==
    IF ConfiguredDir # {}
    THEN ExpectedNeDB(AbsolutePath(CHOOSE d \in ConfiguredDir : TRUE), opts.collection)
    ELSE ExpectedMongoDB(ConfiguredUri, opts.collection)

\* C8: for every combination of configuration the selection yields, by
\* priority, the file-backed NeDB configuration if a local-file directory
\* is configured and the MongoDB configuration otherwise; type and options
\* belong to the same backend.
C8_Original ==
    \A r \in Replicas : svc[r].pc # "new" => svc[r].adapter = ByPriority

\* C8 as amended: when opts carries no adapter of its own, the selection
\* yields, by priority: for db.mixin.js in test mode without TEST_INT, or
\* with ONLY_GENERATE set, the bare adapter name "NeDB" without options;
\* else the file-backed NeDB configuration if a directory is configured;
\* else the MongoDB configuration.  An adapter opts already carries keeps
\* every leaf it defines and is only completed from the selected defaults.
C8_Amended ==
    \A r \in Replicas :
        svc[r].pc # "new" =>
            LET selected ==
                    IF variant = "db.mixin.js"
                         /\ ((testing /\ env0.TEST_INT = {}) \/ env0.ONLY_GENERATE # {})
                    THEN ExpectedBareNeDB
                    ELSE ByPriority
            IN /\ opts.adapter.form = "undefined" => svc[r].adapter = selected
               /\ opts.adapter.form = "string" => svc[r].adapter = opts.adapter
               /\ opts.adapter.form = "object" =>
                     \A f \in DOMAIN opts.adapter \ {"form"} :
                         svc[r].adapter[f] =
                             IF opts.adapter[f] # {} THEN opts.adapter[f] ELSE selected[f]

\* db.mixin.js outside test mode, with NEDB_FOLDER and opts.nedb both set and
\* no adapter in opts, has selected the file-backed store in NEDB_FOLDER.
C8_Witness ==
    \E r \in Replicas :
        /\ svc[r].pc = "built"
        /\ variant = "db.mixin.js"
        /\ opts.adapter.form = "undefined"
        /\ env0.NEDB_FOLDER # {} /\ opts.nedb # {}
        /\ svc[r].adapter.filename = {"/var/db/" \o opts.collection \o ".db"}
        /\ "/var/db" \in dirs[r]

\* C9: for every configured prefix the schema declares create, list, find,
\* count, get, update and remove, each with permissions exactly
\* ["<prefix>.<action>"]; get, update and remove need the resolved entity;
\* replace is disabled.
C9_GatedActions ==
    \A r \in Replicas :
        svc[r].pc # "new" =>
            /\ DOMAIN svc[r].actions = ActionNames \cup {"replace"}
            /\ \A n \in ActionNames :
                  /\ ~svc[r].actions[n].disabled
                  /\ svc[r].actions[n].permissions =
                         << (CHOOSE x \in opts.permissions : TRUE) \o "." \o n >>
                  /\ svc[r].actions[n].needEntity = (n \in {"get", "update", "remove"})
            /\ svc[r].actions["replace"].disabled

====
